---- MODULE Spec2Model ----
(***************************************************************************)
(* League of Misfits dashboard: the data hooks of the two source variants. *)
(*   "direct"  : src/unnamed/part_000 (reads the Sleeper API itself)       *)
(*   "backend" : src/src/App.jsx with USE_BACKEND_API = true               *)
(* Points are integers (hundredths of a point); a JS null/undefined number *)
(* is Null, a null object is Absent, a missing string is "".               *)
(***************************************************************************)
EXTENDS Integers, Naturals, Sequences, FiniteSets, TLC

VARIABLES
    variant,      \* which source variant runs: "direct" or "backend"
    upstream,     \* what the remote API would answer right now
    activeTab,    \* App: [activeTab, setActiveTab], the page on display
    data,         \* useLeagueData: the useState record
    mounted,      \* useLeagueData: the mount effect has run
    inflight,     \* refresh() calls awaiting their Promise.all
    nextId,       \* ids handed to refresh() calls (bookkeeping)
    matchups,     \* useMatchups: [matchups, setMatchups]
    mLoading,     \* useMatchups: [loading, setLoading]
    mPending,     \* useMatchups: the week of each fetch not answered yet, as issued
    selectedWeek, \* Matchups: [selectedWeek, setSelectedWeek]; 0 while not mounted
    history,      \* useWeeklyHistory: [history, setHistory]
    hRun,         \* useWeeklyHistory: the latest fetchHistory (or idle)
    hOld,         \* useWeeklyHistory: unanswered requests of earlier runs
    awards,       \* Awards / useAwards: [awards, setAwards]
    aLoading,     \* Awards / useAwards: [loading, setLoading]
    aRun,         \* Awards / useAwards: the latest calculate / fetchAwards
    aOld,         \* useAwards: earlier runs of fetchAwards that still await
    call,         \* api.get: the position of one call (or idle)
    mNote,        \* useMatchups (bookkeeping): the refresh count when each pending
                  \* fetch was issued and when the shown one was, and whether a
                  \* response handler raised
    chat          \* AIChat: messages, input, loading, and the replies awaited

leagueVars == <<data, mounted, inflight, nextId>>
matchVars == <<matchups, mLoading, mPending, selectedWeek, mNote>>
trendVars == <<history, hRun, hOld>>
awardVars == <<awards, aLoading, aRun, aOld>>
vars == <<variant, upstream, activeTab, data, mounted, inflight, nextId, matchups, mLoading,
          mPending, selectedWeek, history, hRun, hOld, awards, aLoading, aRun, aOld,
          call,
          mNote, chat>>

----------------------------------------------------------------------------
(* Bounds of the model *)

MaxRosters == 3
MaxRefreshes == 3
MaxSeasonWeek == 2
MaxWeek == 18
MaxPairRows == 6
MaxTrendRows == 4
MaxTrendWeek == 2
MaxAwardRows == 3
MaxAwardWeek == 4
MaxChatMessages == 5
MaxPending == 3

(* Program constants *)

MaxLookback == 17
AwardWindow == 2

----------------------------------------------------------------------------
(* JavaScript values *)

Null == 0 - 1000000
Absent == [ok |-> FALSE]
NoError == ""

Falsy(x) == x = Null \/ x = 0
OrZero(x) == IF Falsy(x) THEN 0 ELSE x
OrOne(x) == IF Falsy(x) THEN 1 ELSE x

Fetched(body) == [ok |-> TRUE, body |-> body]
Failed == [ok |-> FALSE]

Range(s) == {s[i] : i \in DOMAIN s}

----------------------------------------------------------------------------
(* api.get / sleeperApi.get / backendApi.get: fetch, res.ok and res.json() *)
(* inside one try, whose catch logs and returns null                      *)

NetworkError == [net |-> FALSE]
Response(status, json) == [net |-> TRUE, status |-> status, json |-> json]

Undecodable == [decodes |-> FALSE]
Decoded(value) == [decodes |-> TRUE, value |-> value]

ResOkAlways(res) == TRUE
ResOk(res) == res.status >= 200 /\ res.status <= 299

HttpStatuses == {200, 204, 299, 300, 404, 500}
JsonBodies == {Undecodable, Decoded(Failed), Decoded(Fetched(<<>>))}
Outcomes == {NetworkError} \cup {Response(st, j) : st \in HttpStatuses, j \in JsonBodies}

Endpoints(v) ==
    IF v = "direct"
    THEN {<<"/state/nfl">>, <<"/league">>, <<"/league/users">>, <<"/league/rosters">>}
            \cup {<<"/league/matchups", w>> : w \in 1..MaxSeasonWeek}
    ELSE {<<"/api/state">>, <<"/api/standings">>, <<"/api/history/weekly">>}
            \cup {<<"/api/matchups", w>> : w \in 1..MaxSeasonWeek}
            \cup {<<"/api/awards", w>> : w \in 1..MaxSeasonWeek}

ApiCall(endpoint, outcome) ==
    /\ call.pc = "idle"
    /\ call' = [pc |-> "fetch", endpoint |-> endpoint, outcome |-> outcome]
    /\ UNCHANGED <<variant, activeTab, chat, upstream, data, mounted, inflight, nextId, matchups, mLoading,
                   mPending, selectedWeek, mNote, trendVars, awardVars>>

FetchSettles ==
    /\ call.pc = "fetch"
    /\ call' = [call EXCEPT !.pc = IF ~call.outcome.net THEN "catch"
                                    ELSE IF ~ResOk(call.outcome) THEN "catch"
                                    ELSE "json"]
    /\ UNCHANGED <<variant, activeTab, chat, upstream, data, mounted, inflight, nextId, matchups, mLoading,
                   mPending, selectedWeek, mNote, trendVars, awardVars>>

JsonSettles ==
    /\ call.pc = "json"
    /\ call' = IF call.outcome.json.decodes
               THEN [pc |-> "returned", endpoint |-> call.endpoint,
                     outcome |-> call.outcome, value |-> call.outcome.json.value]
               ELSE [call EXCEPT !.pc = "catch"]
    /\ UNCHANGED <<variant, activeTab, chat, upstream, data, mounted, inflight, nextId, matchups, mLoading,
                   mPending, selectedWeek, mNote, trendVars, awardVars>>

CatchReturns ==
    /\ call.pc = "catch"
    /\ call' = [pc |-> "returned", endpoint |-> call.endpoint,
                outcome |-> call.outcome, value |-> Failed]
    /\ UNCHANGED <<variant, activeTab, chat, upstream, data, mounted, inflight, nextId, matchups, mLoading,
                   mPending, selectedWeek, mNote, trendVars, awardVars>>

----------------------------------------------------------------------------
(* Roster/User Resolver *)

NoAvatar == <<>>
UserNameNoUsername(u) ==
    IF u.display_name # "" THEN <<u.display_name>> ELSE <<"Unknown">>
UserName(u) ==
    IF u.display_name # "" THEN <<u.display_name>>
    ELSE IF u.username # "" THEN <<u.username>>
    ELSE <<"Unknown">>
UserAvatar(u) == IF u.avatar # "" THEN <<"thumbs", u.avatar>> ELSE NoAvatar

LastIndexOf(users, id) ==
    CHOOSE i \in DOMAIN users :
        /\ users[i].user_id = id
        /\ \A j \in DOMAIN users : users[j].user_id = id => j <= i

BuildUserMap(users) ==
    [id \in {users[i].user_id : i \in DOMAIN users} |->
        LET u == users[LastIndexOf(users, id)]
        IN  [name |-> UserName(u), avatar |-> UserAvatar(u)]]

TeamLabel(rosterId) == <<"Team", rosterId>>

OwnerName(userMap, r) ==
    IF r.owner_id \in DOMAIN userMap
    THEN userMap[r.owner_id].name
    ELSE TeamLabel(r.roster_id)

----------------------------------------------------------------------------
(* Standings Ranker *)

PointsForTenths(r) == OrZero(r.fpts) * 100 + (OrZero(r.fpts_decimal) \div 10) * 10
PointsFor(r) == OrZero(r.fpts) * 100 + OrZero(r.fpts_decimal)

PointsAgainst(r) == OrZero(r.fpts_against) * 100 + OrZero(r.fpts_against_decimal)

OwnerAvatar(userMap, r) ==
    IF r.owner_id \in DOMAIN userMap THEN userMap[r.owner_id].avatar ELSE NoAvatar

Team(userMap, r) ==
    [name |-> OwnerName(userMap, r),
     avatar |-> OwnerAvatar(userMap, r),
     wins |-> OrZero(r.wins),
     losses |-> OrZero(r.losses),
     pf |-> PointsFor(r),
     pa |-> PointsAgainst(r),
     rosterId |-> r.roster_id,
     ownerId |-> r.owner_id,
     streak |-> r.streak]

CompareWinsOnly(a, b) == b.wins - a.wins
CompareTeams(a, b) == IF b.wins # a.wins THEN b.wins - a.wins ELSE b.pf - a.pf

InsertBeforeEqual(sorted, x) ==
    LET k == Cardinality({i \in DOMAIN sorted : CompareTeams(sorted[i], x) < 0})
    IN  SubSeq(sorted, 1, k) \o <<x>> \o SubSeq(sorted, k + 1, Len(sorted))
InsertStable(sorted, x) ==
    LET k == Cardinality({i \in DOMAIN sorted : CompareTeams(sorted[i], x) <= 0})
    IN  SubSeq(sorted, 1, k) \o <<x>> \o SubSeq(sorted, k + 1, Len(sorted))

RECURSIVE SortPrefix(_, _)
SortPrefix(teams, n) ==
    IF n = 0 THEN <<>> ELSE InsertStable(SortPrefix(teams, n - 1), teams[n])

SortTeams(teams) == SortPrefix(teams, Len(teams))

WithRank(t, i) ==
    [name |-> t.name, avatar |-> t.avatar, wins |-> t.wins, losses |-> t.losses,
     pf |-> t.pf, pa |-> t.pa, rosterId |-> t.rosterId, ownerId |-> t.ownerId,
     streak |-> t.streak, rank |-> i]

RankStandings(userMap, rosters) ==
    LET teams == [i \in DOMAIN rosters |-> Team(userMap, rosters[i])]
        sorted == SortTeams(teams)
    IN  [i \in DOMAIN sorted |-> WithRank(sorted[i], i)]

BackendStandingsResorted(standingsData) ==
    LET Place(i) == 1 + Cardinality({j \in DOMAIN standingsData :
                        \/ standingsData[j].wins > standingsData[i].wins
                        \/ standingsData[j].wins = standingsData[i].wins /\ j < i})
        At(p) == standingsData[CHOOSE i \in DOMAIN standingsData : Place(i) = p]
    IN  [p \in DOMAIN standingsData |->
            [team |-> At(p).team, wins |-> At(p).wins, points_for |-> At(p).points_for,
             rank |-> p, pf |-> At(p).points_for]]
BackendStandings(standingsData) ==
    [i \in DOMAIN standingsData |->
        [team |-> standingsData[i].team,
         wins |-> standingsData[i].wins,
         points_for |-> standingsData[i].points_for,
         rank |-> i,
         pf |-> standingsData[i].points_for]]

(* team.pf.toFixed(1): the tenths shown for a points-for in hundredths.  *)
(* pf is the double nearest to fpts + fpts_decimal / 100 and toFixed      *)
(* rounds that double's exact value, so a last digit 5 goes up only when  *)
(* the double is exact or lies above the decimal. With 2^e <= pf < 2^(e+1)*)
(* the doubles are 2^(e-52) apart; the decimal is r/25 of a step past a   *)
(* double, r = pf * 2^(50-e) mod 25 in hundredths, and the nearest double *)
(* lies above it when r >= 13. Powers of two mod 25 repeat every 20.      *)
DisplayTenths(pf) ==
    IF pf % 10 # 5 THEN (pf + 5) \div 10
    ELSE LET e == CHOOSE x \in (0 - 7)..20 :
                    IF x >= 0 THEN 100 * 2^x <= pf /\ pf < 200 * 2^x
                    ELSE 100 <= pf * 2^(0 - x) /\ pf * 2^(0 - x) < 200
             cycle == <<1, 2, 4, 8, 16, 7, 14, 3, 6, 12, 24, 23, 21, 17, 9, 18, 11, 22, 19, 13>>
             r == ((pf % 25) * cycle[((50 - e) % 20) + 1]) % 25
         IN  IF r = 0 \/ r >= 13 THEN pf \div 10 + 1 ELSE pf \div 10

----------------------------------------------------------------------------
(* What the remote API can hold *)

Weeks == 1..MaxWeek

User(id, display, username, avatar) ==
    [user_id |-> id, display_name |-> display, username |-> username, avatar |-> avatar]

Roster(id, owner, wins, fpts, dec) ==
    [roster_id |-> id, owner_id |-> owner, wins |-> wins, losses |-> Null,
     fpts |-> fpts, fpts_decimal |-> dec, fpts_against |-> Null,
     fpts_against_decimal |-> Null, streak |-> ""]

WinsValues == {Null, 1, 2}
FptsValues == {<<Null, Null>>, <<90, Null>>, <<90, 50>>, <<90, 54>>}

RosterList(ws, fs) ==
    [i \in DOMAIN ws |-> Roster(i, i, ws[i], fs[i][1], fs[i][2])]

RankerUserLists ==
    {<<>>, <<User(1, "Ann", "ann01", "av1")>>,
     <<User(1, "Ann", "ann01", "av1"), User(2, "", "", "")>>,
     <<User(1, "Ann", "ann01", "av1"), User(2, "", "", ""), User(3, "", "cy03", "")>>}

SmallUserLists == {<<>>, <<User(1, "", "ann01", "")>>}
SmallRosterLists ==
    {<<>>, <<Roster(1, 1, 1, 90, 50), Roster(2, Null, 2, 90, Null)>>}
StandingsFeeds ==
    {<<>>, <<[team |-> <<"Ann">>, wins |-> 2, points_for |-> 9050],
             [team |-> <<"Bob">>, wins |-> 1, points_for |-> 9100]>>}
StateFeeds == {[week |-> w] : w \in {Null} \cup 1..MaxSeasonWeek}
TheLeague == [name |-> "League of Misfits"]

NoMatchups == [w \in Weeks |-> Failed]
NoAwards == [w \in Weeks |-> Failed]

League(state, users, rosters, standings) ==
    [state |-> state, league |-> TheLeague, users |-> users, rosters |-> rosters,
     standings |-> standings, matchups |-> NoMatchups, awards |-> NoAwards,
     history |-> Failed]

LeagueContents(v) ==
    IF v = "direct"
    THEN {League(s, u, r, <<>>) :
            s \in StateFeeds, u \in SmallUserLists, r \in SmallRosterLists}
    ELSE {League(s, <<>>, <<>>, f) : s \in StateFeeds, f \in StandingsFeeds}

----------------------------------------------------------------------------
(* useLeagueData *)

InitData ==
    [loading |-> TRUE, error |-> NoError, nflState |-> Absent, league |-> Absent,
     users |-> <<>>, rosters |-> <<>>, standings |-> <<>>, currentWeek |-> 1,
     userMap |-> <<>>]

JoinedFetches(v) ==
    IF v = "direct" THEN {"state", "league", "users", "rosters"}
    ELSE {"state", "standings"}

RequiredFetches(v) ==
    IF v = "direct" THEN {"state", "users", "rosters"} ELSE {"state", "standings"}

FailureMessage(v) ==
    IF v = "direct" THEN "Failed to fetch league data"
    ELSE "Failed to connect to Python Brain"

PublishDirect(sent, lost) ==
    LET userMap == BuildUserMap(sent.users)
    IN  [loading |-> FALSE, error |-> NoError,
         nflState |-> sent.state,
         league |-> IF "league" \in lost THEN Absent ELSE sent.league,
         users |-> sent.users,
         standings |-> RankStandings(userMap, sent.rosters),
         currentWeek |-> OrOne(sent.state.week),
         userMap |-> userMap,
         rosters |-> sent.rosters]

PublishBackend(sent) ==
    [loading |-> FALSE, error |-> NoError,
     nflState |-> sent.state,
     league |-> Absent,
     users |-> <<>>,
     standings |-> BackendStandings(sent.standings),
     currentWeek |-> OrOne(sent.state.week),
     userMap |-> <<>>,
     rosters |-> <<>>]

FailResetsSnapshot(d, msg) == [InitData EXCEPT !.loading = FALSE, !.error = msg]
FailRefresh(d, msg) == [d EXCEPT !.loading = FALSE, !.error = msg]

SettleKeepsRosters(d, v, sent, lost) ==
    IF lost \cap RequiredFetches(v) # {}
    THEN FailRefresh(d, FailureMessage(v))
    ELSE IF v = "direct"
         THEN [PublishDirect(sent, lost) EXCEPT !.rosters = d.rosters]
         ELSE [PublishBackend(sent) EXCEPT !.nflState = d.nflState]
Settle(d, v, sent, lost) ==
    IF lost \cap RequiredFetches(v) # {}
    THEN FailRefresh(d, FailureMessage(v))
    ELSE IF v = "direct" THEN PublishDirect(sent, lost) ELSE PublishBackend(sent)

RefreshLeavesLoading ==
    /\ nextId <= MaxRefreshes
    /\ data' = [data EXCEPT !.error = NoError]
    /\ inflight' = inflight \cup {[id |-> nextId, pre |-> data, sent |-> upstream]}
    /\ nextId' = nextId + 1
Refresh ==
    /\ nextId <= MaxRefreshes
    /\ data' = [data EXCEPT !.loading = TRUE, !.error = NoError]
    /\ inflight' = inflight \cup {[id |-> nextId, pre |-> data, sent |-> upstream]}
    /\ nextId' = nextId + 1

MountEffect ==
    /\ ~mounted
    /\ mounted' = TRUE
    /\ Refresh
    /\ UNCHANGED <<variant, activeTab, call, chat, upstream, matchVars, trendVars, awardVars>>

(* App.renderPage: what stands in the page area for a store value *)
RenderPage(v, d) ==
    IF v = "direct"
    THEN IF d.loading THEN "spinner"
         ELSE IF d.error # NoError THEN "error"
         ELSE "page"
    ELSE "page"

IdleRun == [pc |-> "idle"]
IdleNote == [issued |-> <<>>, shown |-> 0, raised |-> FALSE]

(* AIChat: the three useState initial values; awaited counts the replies *)
(* (timers, completion calls) that have not arrived yet                  *)
Message(role, content) == [role |-> role, content |-> content]
ChatIdle ==
    [messages |-> <<Message("assistant", "greeting")>>, input |-> "",
     loading |-> FALSE, awaited |-> 0]

(* A page that leaves the tree takes its hooks' state with it: the page that *)
(* mounts next starts from the useState initial values, and what an earlier  *)
(* page still awaits sets the state of no page on display.                   *)
PageLeaves ==
    /\ matchups' = <<>>
    /\ mLoading' = TRUE
    /\ mPending' = <<>>
    /\ selectedWeek' = 0
    /\ mNote' = IdleNote
    /\ history' = <<>>
    /\ hRun' = IdleRun
    /\ hOld' = 0
    /\ awards' = <<>>
    /\ aLoading' = TRUE
    /\ aRun' = IdleRun
    /\ aOld' = <<>>
    /\ chat' = ChatIdle

(* A page that renderPage no longer returns leaves the tree with its hooks' *)
(* state; App.jsx keeps the page whatever the store holds.                  *)
Unmount ==
    IF variant = "direct"
    THEN PageLeaves
    ELSE UNCHANGED <<matchVars, trendVars, awardVars, chat>>

(* The bottom nav and the Dashboard's button: another page replaces the one *)
(* on display, in both variants.                                            *)
Tabs == {"dashboard", "standings", "matchups", "awards", "chat"}

SetActiveTab(id) ==
    /\ id # activeTab
    /\ activeTab' = id
    /\ PageLeaves
    /\ UNCHANGED <<variant, call, upstream, leagueVars>>

ClickRefreshAnytime ==
    /\ mounted
    /\ Refresh
    /\ Unmount
    /\ UNCHANGED <<variant, activeTab, call, upstream, mounted>>
ClickRefresh ==
    /\ mounted
    /\ ~data.loading
    /\ Refresh
    /\ Unmount
    /\ UNCHANGED <<variant, activeTab, call, upstream, mounted>>

ClickRetry ==
    /\ mounted
    /\ ~data.loading
    /\ data.error # NoError
    /\ Refresh
    /\ Unmount
    /\ UNCHANGED <<variant, activeTab, call, upstream, mounted>>

ResolveRetries(r, lost) ==
    /\ r \in inflight
    /\ lost \subseteq JoinedFetches(variant)
    /\ IF lost \cap RequiredFetches(variant) # {} /\ nextId <= MaxRefreshes
       THEN /\ data' = data
            /\ inflight' = (inflight \ {r}) \cup {[id |-> nextId, pre |-> r.pre, sent |-> upstream]}
            /\ nextId' = nextId + 1
       ELSE /\ data' = Settle(data, variant, r.sent, lost)
            /\ inflight' = inflight \ {r}
            /\ nextId' = nextId
    /\ UNCHANGED <<variant, activeTab, call, chat, upstream, mounted, matchVars, trendVars, awardVars>>
ResolveRefresh(r, lost) ==
    /\ r \in inflight
    /\ lost \subseteq JoinedFetches(variant)
    /\ data' = Settle(data, variant, r.sent, lost)
    /\ inflight' = inflight \ {r}
    /\ UNCHANGED <<variant, activeTab, call, chat, upstream, mounted, nextId, matchVars, trendVars, awardVars>>

UpstreamChange ==
    /\ \E c \in LeagueContents(variant) : c # upstream /\ upstream' = c
    /\ UNCHANGED <<variant, activeTab, call, chat, leagueVars, matchVars, trendVars, awardVars>>

IdleCall == [pc |-> "idle"]

PagesIdle ==
    /\ matchups = <<>>
    /\ mLoading = TRUE
    /\ mPending = <<>>
    /\ selectedWeek = 0
    /\ mNote = IdleNote
    /\ history = <<>>
    /\ hRun = IdleRun
    /\ hOld = 0
    /\ awards = <<>>
    /\ aLoading = TRUE
    /\ aRun = IdleRun
    /\ aOld = <<>>
    /\ chat = ChatIdle

HooksIdle ==
    /\ activeTab = "dashboard"
    /\ call = IdleCall
    /\ PagesIdle

StoreInit ==
    /\ data = InitData
    /\ mounted = FALSE
    /\ inflight = {}
    /\ nextId = 1

Init ==
    /\ variant \in {"direct", "backend"}
    /\ upstream \in LeagueContents(variant)
    /\ StoreInit
    /\ HooksIdle

Next ==
    \/ MountEffect
    \/ ClickRefresh
    \/ ClickRetry
    \/ \E r \in inflight : \E lost \in SUBSET JoinedFetches(variant) : ResolveRefresh(r, lost)
    \/ UpstreamChange

Spec == Init /\ [][Next]_vars

(* The Ranker on bounded roster lists: one refresh of the direct variant. *)
RankerInit ==
    /\ variant = "direct"
    /\ \E u \in RankerUserLists : \E n \in 0..MaxRosters :
            \E ws \in [1..n -> WinsValues], fs \in [1..n -> FptsValues] :
                upstream = League([week |-> 1], u, RosterList(ws, fs), <<>>)
    /\ StoreInit
    /\ HooksIdle

RankerNext ==
    \/ MountEffect
    \/ \E r \in inflight : \E lost \in SUBSET JoinedFetches(variant) : ResolveRefresh(r, lost)

SpecRanker == RankerInit /\ [][RankerNext]_vars

(* PATH A on bounded standings feeds: one refresh of App.jsx. *)
StandingsInit ==
    /\ variant = "backend"
    /\ \E n \in 0..MaxRosters :
            \E ws \in [1..n -> {0, 1, 2}], ps \in [1..n -> {9050, 9100}] :
                upstream = League([week |-> 1], <<>>, <<>>,
                                  [i \in 1..n |-> [team |-> <<"Owner", i>>, wins |-> ws[i],
                                                   points_for |-> ps[i]]])
    /\ StoreInit
    /\ HooksIdle

SpecStandings == StandingsInit /\ [][RankerNext]_vars

(* One api.get call of either variant, for every outcome of the request. *)
FetchInit ==
    /\ variant \in {"direct", "backend"}
    /\ upstream = League([week |-> 1], <<>>, <<>>, <<>>)
    /\ StoreInit
    /\ HooksIdle

FetchNext ==
    \/ \E e \in Endpoints(variant), o \in Outcomes : ApiCall(e, o)
    \/ FetchSettles
    \/ JsonSettles
    \/ CatchReturns

SpecFetch == FetchInit /\ [][FetchNext]_vars

----------------------------------------------------------------------------
(* A mounted page reads a published store. *)

HookUsers == <<User(1, "Ann", "ann01", "")>>
HookRosters == <<Roster(1, 1, 2, 90, 50), Roster(2, Null, 1, 90, Null)>>

HookStore(week) ==
    PublishDirect(League([week |-> week], HookUsers, HookRosters, <<>>), {})

LastRosterIndex(rosters, id) ==
    CHOOSE i \in DOMAIN rosters :
        /\ rosters[i].roster_id = id
        /\ \A j \in DOMAIN rosters : rosters[j].roster_id = id => j <= i

RosterToUser(rosters, userMap) ==
    [id \in {rosters[i].roster_id : i \in DOMAIN rosters} |->
        OwnerName(userMap, rosters[LastRosterIndex(rosters, id)])]

----------------------------------------------------------------------------
(* Matchup Pairer: useMatchups of the direct variant *)

ScoreRow(rosterId, matchupId, points) ==
    [roster_id |-> rosterId, matchup_id |-> matchupId, points |-> points]

TeamNameOf(rosterToUser, rosterId) ==
    IF rosterId \in DOMAIN rosterToUser
    THEN rosterToUser[rosterId]
    ELSE TeamLabel(rosterId)

PairEntry(rosterToUser, m) ==
    [roster_id |-> m.roster_id, matchup_id |-> m.matchup_id,
     teamName |-> TeamNameOf(rosterToUser, m.roster_id),
     points |-> OrZero(m.points)]

SkipsRow(mid) == Falsy(mid)

GroupKeys(rows) == {mid \in {rows[i].matchup_id : i \in DOMAIN rows} : ~SkipsRow(mid)}

GroupOf(rosterToUser, rows, mid) ==
    LET Keep(m) == m.matchup_id = mid
        kept == SelectSeq(rows, Keep)
    IN  [i \in DOMAIN kept |-> PairEntry(rosterToUser, kept[i])]

RECURSIVE Ascending(_)
Ascending(keys) ==
    IF keys = {} THEN <<>>
    ELSE LET lo == CHOOSE k \in keys : \A o \in keys : k <= o
         IN  <<lo>> \o Ascending(keys \ {lo})

KeepsAnyGroup(g) == Len(g) >= 2
KeepsGroup(g) == Len(g) = 2

PairOfSwapped(g) ==
    [team1 |-> g[2].teamName, score1 |-> g[2].points,
     team2 |-> g[1].teamName, score2 |-> g[1].points]
PairOf(g) ==
    [team1 |-> g[1].teamName, score1 |-> g[1].points,
     team2 |-> g[2].teamName, score2 |-> g[2].points]

PairMatchups(rosterToUser, rows) ==
    LET keys == Ascending(GroupKeys(rows))
        groups == [k \in DOMAIN keys |-> GroupOf(rosterToUser, rows, keys[k])]
        kept == SelectSeq(groups, KeepsGroup)
    IN  [k \in DOMAIN kept |-> PairOf(kept[k])]

(* an element leaves a list *)
RemoveAt(s, i) == SubSeq(s, 1, i - 1) \o SubSeq(s, i + 1, Len(s))

(* one fetch for each run of the effect; nothing withdraws an earlier one *)
MatchupsEffect(week) ==
    /\ week # 0
    /\ mLoading' = TRUE
    /\ Len(mPending) < MaxPending
    /\ mPending' = Append(mPending, week)
    /\ mNote' = [mNote EXCEPT !.issued = Append(@, nextId - 1)]
    /\ UNCHANGED matchups

MountMatchups ==
    /\ variant = "direct"
    /\ activeTab \in {"dashboard", "matchups"}
    /\ selectedWeek = 0
    /\ RenderPage(variant, data) = "page"
    /\ selectedWeek' = data.currentWeek
    /\ MatchupsEffect(data.currentWeek)
    /\ UNCHANGED <<variant, activeTab, call, chat, upstream, leagueVars, trendVars, awardVars>>

MatchupsResponse(i) ==
    /\ variant = "direct"
    /\ i \in DOMAIN mPending
    /\ mPending' = RemoveAt(mPending, i)
    /\ LET got == upstream.matchups[mPending[i]]
       IN  IF ~got.ok
           THEN matchups' = <<>>
           ELSE matchups' = PairMatchups(RosterToUser(data.rosters, data.userMap), got.body)
    /\ mLoading' = FALSE
    /\ mNote' = [mNote EXCEPT !.issued = RemoveAt(@, i),
                              !.shown = mNote.issued[i]]
    /\ UNCHANGED <<variant, activeTab, call, chat, upstream, leagueVars, selectedWeek, trendVars, awardVars>>

(* Week feeds for the Pairer: row i belongs to roster i and scores 100 + i, *)
(* or has no points when i is the row chosen to lack them.                  *)
PairIds == {Null, 0, 1, 2}

PairRows(mids, missing) ==
    [i \in DOMAIN mids |->
        ScoreRow(i, mids[i], IF i = missing THEN Null ELSE 100 + i)]

OnlyWeek(week, feed) == [w \in Weeks |-> IF w = week THEN feed ELSE Failed]

WithMatchups(league, feeds) == [league EXCEPT !.matchups = feeds]

MatchupsInit ==
    /\ variant = "direct"
    /\ \/ upstream = WithMatchups(League([week |-> 1], HookUsers, HookRosters, <<>>),
                                   OnlyWeek(1, Failed))
       \/ \E n \in 0..MaxPairRows : \E mids \in [1..n -> PairIds] : \E missing \in 0..n :
            upstream = WithMatchups(League([week |-> 1], HookUsers, HookRosters, <<>>),
                                    OnlyWeek(1, Fetched(PairRows(mids, missing))))
    /\ data = HookStore(1)
    /\ mounted = TRUE
    /\ inflight = {}
    /\ nextId = 2
    /\ HooksIdle

MatchupsNext ==
    \/ MountMatchups
    \/ \E id \in Tabs : SetActiveTab(id)
    \/ \E i \in DOMAIN mPending : MatchupsResponse(i)

SpecMatchups == MatchupsInit /\ [][MatchupsNext]_vars

----------------------------------------------------------------------------
(* useMatchups of App.jsx: the backend's matchups of a week, reshaped *)

Side(team, score) == [team |-> team, score |-> score]
BackendGame(team1, team2) == [team1 |-> team1, team2 |-> team2]

(* a decoded body that is not an array *)
NotAnArray == [ok |-> TRUE, array |-> FALSE]
IsArray(got) == got.ok /\ "array" \notin DOMAIN got

(* m.team1.team and m.team2.team read a property of undefined *)
FormatThrows(body) ==
    \E i \in DOMAIN body : body[i].team1 = Absent \/ body[i].team2 = Absent

FormatMatchups(body) ==
    [i \in DOMAIN body |->
        [team1 |-> body[i].team1.team, score1 |-> body[i].team1.score,
         team2 |-> body[i].team2.team, score2 |-> body[i].team2.score]]

(* Dashboard: useMatchups(currentWeek), whose effect depends on [week] alone *)
MatchupsWeekEffect ==
    /\ variant = "backend"
    /\ activeTab = "dashboard"
    /\ RenderPage(variant, data) = "page"
    /\ selectedWeek # data.currentWeek
    /\ selectedWeek' = data.currentWeek
    /\ MatchupsEffect(data.currentWeek)
    /\ UNCHANGED <<variant, activeTab, call, chat, upstream, leagueVars, trendVars, awardVars>>

MatchupsResponseBackend(i) ==
    /\ variant = "backend"
    /\ i \in DOMAIN mPending
    /\ mPending' = RemoveAt(mPending, i)
    /\ LET got == upstream.matchups[mPending[i]]
       IN  IF IsArray(got) /\ FormatThrows(got.body)
           THEN /\ UNCHANGED <<matchups, mLoading>>
                /\ mNote' = [mNote EXCEPT !.issued = RemoveAt(@, i),
                                          !.raised = TRUE]
           ELSE /\ matchups' = IF IsArray(got) THEN FormatMatchups(got.body) ELSE <<>>
                /\ mLoading' = FALSE
                /\ mNote' = [mNote EXCEPT !.issued = RemoveAt(@, i),
                                          !.shown = mNote.issued[i]]
    /\ UNCHANGED <<variant, activeTab, call, chat, upstream, leagueVars, selectedWeek, trendVars, awardVars>>

----------------------------------------------------------------------------
(* Weekly Trend Aggregator: useWeeklyHistory of part_000; App.jsx publishes *)
(* the history the backend serves                                          *)

Minimum(a, b) == IF a <= b THEN a ELSE b
Maximum(a, b) == IF a >= b THEN a ELSE b

KeepsNonNegative(p) == p >= 0
KeepsScore(p) == p > 0

PositiveScores(rows) ==
    LET points == [i \in DOMAIN rows |-> OrZero(rows[i].points)]
    IN  SelectSeq(points, KeepsScore)

MaxOf(scores) == CHOOSE x \in Range(scores) : \A y \in Range(scores) : x >= y
MinOf(scores) == CHOOSE x \in Range(scores) : \A y \in Range(scores) : x <= y

RECURSIVE SumOf(_)
SumOf(scores) ==
    IF scores = <<>> THEN 0 ELSE scores[1] + SumOf(Tail(scores))

(* avg is the quotient sum / count, kept as the pair it is computed from *)
TrendPoint(week, scores) ==
    [week |-> week, high |-> MaxOf(scores), low |-> MinOf(scores),
     avg |-> [sum |-> SumOf(scores), count |-> Len(scores)]]

LastHistoryWeek(currentWeek) == Minimum(currentWeek, MaxLookback)

PushFront(weeks, point) == <<point>> \o weeks
PushBack(weeks, point) == Append(weeks, point)

(* The effect depends on [currentWeek]: it runs when the page mounts and, on *)
(* a page that stays mounted over a refresh (App.jsx), when currentWeek has  *)
(* changed; the run started before goes on.                                  *)
HistoryEffect ==
    /\ activeTab = "dashboard"
    /\ RenderPage(variant, data) = "page"
    /\ ~Falsy(data.currentWeek)
    /\ data.currentWeek >= 1
    /\ IF hRun = IdleRun THEN TRUE
       ELSE variant = "backend" /\ hRun.currentWeek # data.currentWeek
    /\ hRun' = [pc |-> IF variant = "direct" THEN "loop" ELSE "fetch",
                currentWeek |-> data.currentWeek,
                w |-> IF variant = "direct" THEN 1 ELSE 0, weeks |-> <<>>]
    /\ hOld' = IF hRun.pc = "fetch" THEN hOld + 1 ELSE hOld
    /\ UNCHANGED <<variant, activeTab, call, chat, upstream, leagueVars, matchVars, history, awardVars>>

(* part_000: the continuation after await api.matchups(w); after the last *)
(* week it leaves the loop and calls setHistory(weeks)                    *)
HistoryFetchWeek ==
    /\ variant = "direct"
    /\ hRun.pc = "loop"
    /\ LET got == upstream.matchups[hRun.w]
           scores == IF got.ok THEN PositiveScores(got.body) ELSE <<>>
           weeks == IF got.ok /\ Len(got.body) > 0 /\ Len(scores) > 0
                    THEN PushBack(hRun.weeks, TrendPoint(hRun.w, scores))
                    ELSE hRun.weeks
       IN  IF hRun.w < LastHistoryWeek(hRun.currentWeek)
           THEN /\ hRun' = [hRun EXCEPT !.w = @ + 1, !.weeks = weeks]
                /\ UNCHANGED history
           ELSE /\ hRun' = [pc |-> "done", currentWeek |-> hRun.currentWeek,
                            w |-> 0, weeks |-> weeks]
                /\ history' = weeks
    /\ UNCHANGED <<variant, activeTab, call, chat, upstream, leagueVars, matchVars, hOld, awardVars>>

(* App.jsx: the continuation after await backendApi.weeklyHistory(), of the *)
(* latest run or of an earlier one: if (data) setHistory(data)              *)
HistoryResponse(latest) ==
    /\ variant = "backend"
    /\ IF latest THEN hRun.pc = "fetch" ELSE hOld > 0
    /\ history' = IF upstream.history.ok THEN upstream.history.body ELSE history
    /\ IF latest
       THEN hRun' = [hRun EXCEPT !.pc = "done"] /\ UNCHANGED hOld
       ELSE hOld' = hOld - 1 /\ UNCHANGED hRun
    /\ UNCHANGED <<variant, activeTab, call, chat, upstream, leagueVars, matchVars, awardVars>>

(* Week feeds for the trend: row i belongs to roster i. *)
TrendPoints == {Null, 0 - 5, 0, 10, 20, 30}

WeekRowsOf(points) == [i \in DOMAIN points |-> ScoreRow(i, 1, points[i])]

PlainFeeds == {Failed, Fetched(<<>>), Fetched(WeekRowsOf(<<20, 0>>))}

ExceptWeek(week, feed, others) == [w \in Weeks |-> IF w = week THEN feed ELSE others]

PublishedStore(week, feeds) ==
    /\ upstream = WithMatchups(League([week |-> week], HookUsers, HookRosters, <<>>), feeds)
    /\ data = HookStore(week)
    /\ mounted = TRUE
    /\ inflight = {}
    /\ nextId = 2

(* Either a short season with one freely chosen week, or a long season of *)
(* plain weeks with one exception.                                        *)
TrendInit ==
    /\ variant = "direct"
    /\ \/ \E week \in 1..MaxTrendWeek, e \in 1..MaxTrendWeek :
            \E n \in 0..MaxTrendRows : \E points \in [1..n -> TrendPoints] :
                \E others \in PlainFeeds :
                    PublishedStore(week, ExceptWeek(e, Fetched(WeekRowsOf(points)), others))
       \/ \E week \in Weeks, e \in Weeks :
            \E f \in PlainFeeds, others \in PlainFeeds :
                PublishedStore(week, ExceptWeek(e, f, others))
    /\ HooksIdle

TrendNext ==
    \/ HistoryEffect
    \/ HistoryFetchWeek
    \/ \E id \in Tabs : SetActiveTab(id)

SpecTrend == TrendInit /\ [][TrendNext]_vars

----------------------------------------------------------------------------
(* Award Calculator: Awards.calculate (direct) and useAwards.fetchAwards (backend) *)

NoName == <<>>

(* rosterToUser[m.roster_id]: undefined for a roster the snapshot does not hold *)
AwardTeamOf(rosterToUser, rosterId) ==
    IF rosterId \in DOMAIN rosterToUser THEN rosterToUser[rosterId] ELSE NoName

QualifyingScores(rosterToUser, rows) ==
    LET scores == [i \in DOMAIN rows |->
                        [team |-> AwardTeamOf(rosterToUser, rows[i].roster_id),
                         points |-> OrZero(rows[i].points)]]
        Keep(t) == KeepsScore(t.points)
    IN  SelectSeq(scores, Keep)

BeatsOrTiesTop(t, max) == t.points >= max.points
BeatsTop(t, max) == t.points > max.points

BeatsLow(t, min) == t.points < min.points

RECURSIVE TopOf(_, _)
TopOf(scores, n) ==
    IF n = 0 THEN scores[1]
    ELSE LET max == TopOf(scores, n - 1)
         IN  IF BeatsTop(scores[n], max) THEN scores[n] ELSE max

RECURSIVE LowOf(_, _)
LowOf(scores, n) ==
    IF n = 0 THEN scores[1]
    ELSE LET min == LowOf(scores, n - 1)
         IN  IF BeatsLow(scores[n], min) THEN scores[n] ELSE min

WeekAward(week, scores) ==
    LET top == TopOf(scores, Len(scores))
        low == LowOf(scores, Len(scores))
    IN  [week |-> week, topDawg |-> top, superWeenie |-> low,
         horsesAss |-> [name |-> low.team, detail |-> <<low.points, "pts">>]]

(* weekAwards.find(a => a.title.includes(keyword)): 0 when nothing matches *)
FirstWith(weekAwards, keyword) ==
    LET hits == {i \in DOMAIN weekAwards :
                    weekAwards[i].title # Absent /\ keyword \in weekAwards[i].title.has}
    IN  IF hits = {} THEN 0 ELSE CHOOSE i \in hits : \A j \in hits : i <= j

(* find reads title.includes of every element up to the first match *)
FindThrows(weekAwards, keyword) ==
    LET hit == FirstWith(weekAwards, keyword)
    IN  \E i \in DOMAIN weekAwards :
            weekAwards[i].title = Absent /\ (hit = 0 \/ i < hit)

AwardKeywords == {"Top Dawg", "Super Weenie", "Horse"}

BackendAward(week, weekAwards) ==
    LET top == FirstWith(weekAwards, "Top Dawg")
        weenie == FirstWith(weekAwards, "Super Weenie")
        horse == FirstWith(weekAwards, "Horse")
    IN  [week |-> week,
         topDawg |-> IF top = 0 THEN Absent
                     ELSE [team |-> weekAwards[top].winner,
                           points |-> weekAwards[top].detail],
         superWeenie |-> IF weenie = 0 THEN Absent
                         ELSE [team |-> weekAwards[weenie].winner,
                               points |-> weekAwards[weenie].detail],
         horsesAss |-> IF horse = 0 THEN Absent
                       ELSE [title |-> <<"stripped", weekAwards[horse].title.text>>,
                             team |-> weekAwards[horse].winner,
                             reason |-> weekAwards[horse].detail]]

WindowStartWide(currentWeek) == Maximum(1, currentWeek - AwardWindow - 1)
WindowStart(currentWeek) == Maximum(1, currentWeek - AwardWindow)

RECURSIVE Reverse(_)
Reverse(s) == IF s = <<>> THEN <<>> ELSE Append(Reverse(Tail(s)), Head(s))

OldestFirst(result) == result
MostRecentFirst(result) == Reverse(result)

AwardsEffect ==
    /\ activeTab = "awards"
    /\ RenderPage(variant, data) = "page"
    /\ ~Falsy(data.currentWeek)
    /\ IF aRun = IdleRun THEN TRUE
       ELSE variant = "backend" /\ aRun.currentWeek # data.currentWeek
    /\ aLoading' = TRUE
    /\ aRun' = [pc |-> "loop", currentWeek |-> data.currentWeek,
                w |-> WindowStart(data.currentWeek), result |-> <<>>]
    /\ aOld' = IF aRun.pc = "loop" THEN Append(aOld, aRun) ELSE aOld
    /\ UNCHANGED <<variant, activeTab, call, chat, upstream, leagueVars, matchVars, trendVars, awards>>

(* w++ and the loop test: the run awaits the next week or has left the loop *)
AfterWeek(run, result) ==
    IF run.w < run.currentWeek
    THEN [run EXCEPT !.w = @ + 1, !.result = result]
    ELSE [pc |-> "done", currentWeek |-> run.currentWeek, w |-> 0, result |-> result]

(* part_000: the continuation after await api.matchups(w); after the last *)
(* week it calls setAwards(result.reverse()) and setLoading(false)        *)
AwardsWeekDirectBreaks ==
    /\ variant = "direct"
    /\ aRun.pc = "loop"
    /\ LET got == upstream.matchups[aRun.w]
           scores == IF got.ok
                     THEN QualifyingScores(RosterToUser(data.rosters, data.userMap), got.body)
                     ELSE <<>>
           next == IF ~got.ok \/ Len(got.body) = 0
                   THEN [pc |-> "done", currentWeek |-> aRun.currentWeek, w |-> 0,
                         result |-> aRun.result]
                   ELSE IF Len(scores) = 0 THEN AfterWeek(aRun, aRun.result)
                   ELSE AfterWeek(aRun, Append(aRun.result, WeekAward(aRun.w, scores)))
       IN  /\ aRun' = next
           /\ IF next.pc = "done"
              THEN awards' = MostRecentFirst(next.result) /\ aLoading' = FALSE
              ELSE UNCHANGED <<awards, aLoading>>
    /\ UNCHANGED <<variant, activeTab, call, chat, upstream, leagueVars, matchVars, trendVars, aOld>>
AwardsWeekDirect ==
    /\ variant = "direct"
    /\ aRun.pc = "loop"
    /\ LET got == upstream.matchups[aRun.w]
           scores == IF got.ok
                     THEN QualifyingScores(RosterToUser(data.rosters, data.userMap), got.body)
                     ELSE <<>>
           next == IF ~got.ok \/ Len(got.body) = 0 \/ Len(scores) = 0
                   THEN AfterWeek(aRun, aRun.result)
                   ELSE AfterWeek(aRun, Append(aRun.result, WeekAward(aRun.w, scores)))
       IN  /\ aRun' = next
           /\ IF next.pc = "done"
              THEN awards' = MostRecentFirst(next.result) /\ aLoading' = FALSE
              ELSE UNCHANGED <<awards, aLoading>>
    /\ UNCHANGED <<variant, activeTab, call, chat, upstream, leagueVars, matchVars, trendVars, aOld>>

(* App.jsx: the continuation after await backendApi.awards(w) of the latest *)
(* run (i = 0) or of the i-th earlier run; a run that raises or has left    *)
(* the loop awaits nothing more                                             *)
AwardsWeekBackend(i) ==
    /\ variant = "backend"
    /\ IF i = 0 THEN aRun.pc = "loop" ELSE i \in DOMAIN aOld
    /\ LET run == IF i = 0 THEN aRun ELSE aOld[i]
           got == upstream.awards[run.w]
           next == IF ~got.ok \/ Len(got.body) = 0
                   THEN AfterWeek(run, run.result)
                   ELSE IF \E keyword \in AwardKeywords : FindThrows(got.body, keyword)
                   THEN [run EXCEPT !.pc = "threw"]
                   ELSE AfterWeek(run, Append(run.result, BackendAward(run.w, got.body)))
       IN  /\ IF next.pc = "done"
              THEN awards' = MostRecentFirst(next.result) /\ aLoading' = FALSE
              ELSE UNCHANGED <<awards, aLoading>>
           /\ IF i = 0
              THEN aRun' = next /\ UNCHANGED aOld
              ELSE /\ UNCHANGED aRun
                   /\ aOld' = IF next.pc = "loop" THEN [aOld EXCEPT ![i] = next]
                              ELSE RemoveAt(aOld, i)
    /\ UNCHANGED <<variant, activeTab, call, chat, upstream, leagueVars, matchVars, trendVars>>

(* Week feeds for the awards: row i belongs to roster i. *)
AwardPoints == {Null, 0 - 5, 0, 50, 70}

PlainAwardRowFeeds == {Failed, Fetched(<<>>), Fetched(WeekRowsOf(<<50, 70>>))}

Title(text, has) == [text |-> text, has |-> has]
AwardItem(title, winner, detail) == [title |-> title, winner |-> winner, detail |-> detail]

TopDawgItem == AwardItem(Title("Top Dawg", {"Top Dawg"}), <<"Ann">>, <<"150.5 pts">>)
WeenieItem == AwardItem(Title("Super Weenie", {"Super Weenie"}), <<"Bob">>, <<"80.2 pts">>)
HorseItem == AwardItem(Title("Horse's Ass: Benched", {"Horse"}), <<"Cy">>, <<"left 40 on bench">>)
OtherItem == AwardItem(Title("MVP", {}), <<"Ann">>, <<"">>)
UntitledItem == AwardItem(Absent, <<"Bob">>, <<"">>)

BackendAwardFeeds ==
    {Failed, Fetched(<<>>), Fetched(<<TopDawgItem, WeenieItem, HorseItem>>),
     Fetched(<<HorseItem, TopDawgItem>>), Fetched(<<OtherItem>>),
     Fetched(<<TopDawgItem, WeenieItem, HorseItem, UntitledItem>>),
     Fetched(<<TopDawgItem, UntitledItem>>)}

PlainBackendAwardFeeds == {Failed, Fetched(<<>>), Fetched(<<TopDawgItem, WeenieItem>>)}

BackendStore(week, feeds) ==
    LET league == [League([week |-> week], <<>>, <<>>, <<>>) EXCEPT !.awards = feeds]
    IN  /\ upstream = league
        /\ data = PublishBackend(league)
        /\ mounted = TRUE
        /\ inflight = {}
        /\ nextId = 2

AwardsInit ==
    /\ \/ /\ variant = "direct"
          /\ \E week \in 1..MaxAwardWeek, e \in 1..MaxAwardWeek :
                \E n \in 0..MaxAwardRows : \E points \in [1..n -> AwardPoints] :
                    \E f \in {Failed, Fetched(WeekRowsOf(points))} :
                        \E others \in PlainAwardRowFeeds :
                            PublishedStore(week, ExceptWeek(e, f, others))
       \/ /\ variant = "backend"
          /\ \E week \in 1..MaxAwardWeek, e \in 1..MaxAwardWeek :
                \E f \in BackendAwardFeeds, others \in PlainBackendAwardFeeds :
                    BackendStore(week, ExceptWeek(e, f, others))
    /\ HooksIdle

AwardsNext ==
    \/ AwardsEffect
    \/ \E id \in Tabs : SetActiveTab(id)
    \/ AwardsWeekDirect
    \/ \E i \in 0..Len(aOld) : AwardsWeekBackend(i)

SpecAwards == AwardsInit /\ [][AwardsNext]_vars

----------------------------------------------------------------------------
(* The store together with the pages' matchups, trend and awards, over *)
(* refreshes and changes of page.                                      *)
PageRowFeeds == {Failed, Fetched(PairRows(<<1, 1>>, 0))}

PageGameFeeds ==
    {NotAnArray,
     Fetched(<<BackendGame(Side(<<"Ann">>, 101), Side(<<"Bob">>, 99))>>),
     Fetched(<<BackendGame(Side(<<"Ann">>, 120), Absent)>>)}

PageContents(v) ==
    IF v = "direct"
    THEN {WithMatchups(League([week |-> w], HookUsers, HookRosters, <<>>),
                       [x \in Weeks |-> f]) :
            w \in 1..MaxSeasonWeek, f \in PageRowFeeds}
    ELSE {[WithMatchups(League([week |-> w], <<>>, <<>>,
                               <<[team |-> <<"Ann">>, wins |-> 2, points_for |-> 9050]>>),
                        [x \in Weeks |-> f])
             EXCEPT !.awards = [x \in Weeks |-> Fetched(<<TopDawgItem>>)],
                    !.history = Fetched([x \in 1..w |-> TrendPoint(x, <<20, 10>>)])] :
            w \in 1..MaxSeasonWeek, f \in PageGameFeeds}

PagesUpstreamChange ==
    /\ \E c \in PageContents(variant) : c # upstream /\ upstream' = c
    /\ UNCHANGED <<variant, activeTab, call, chat, leagueVars, matchVars, trendVars, awardVars>>

PagesInit ==
    /\ variant \in {"direct", "backend"}
    /\ upstream \in PageContents(variant)
    /\ StoreInit
    /\ HooksIdle

PagesNext ==
    \/ MountEffect
    \/ ClickRefresh
    \/ ClickRetry
    \/ \E r \in inflight : \E lost \in SUBSET JoinedFetches(variant) : ResolveRefresh(r, lost)
    \/ PagesUpstreamChange
    \/ \E id \in Tabs : SetActiveTab(id)
    \/ MountMatchups
    \/ MatchupsWeekEffect
    \/ \E i \in DOMAIN mPending : MatchupsResponse(i)
    \/ \E i \in DOMAIN mPending : MatchupsResponseBackend(i)
    \/ HistoryEffect
    \/ HistoryFetchWeek
    \/ \E latest \in BOOLEAN : HistoryResponse(latest)
    \/ AwardsEffect
    \/ AwardsWeekDirect
    \/ \E i \in 0..Len(aOld) : AwardsWeekBackend(i)

SpecPages == PagesInit /\ [][PagesNext]_vars

----------------------------------------------------------------------------
(* The Matchups page: a week selector over useMatchups(selectedWeek) *)

(* App.jsx: useState(data.currentWeek || 1), then the effect of useMatchups *)
MountMatchupsPage ==
    /\ variant = "backend"
    /\ activeTab = "matchups"
    /\ selectedWeek = 0
    /\ RenderPage(variant, data) = "page"
    /\ selectedWeek' = OrOne(data.currentWeek)
    /\ MatchupsEffect(OrOne(data.currentWeek))
    /\ UNCHANGED <<variant, activeTab, call, chat, upstream, leagueVars, trendVars, awardVars>>

(* part_000: the <select> offers weeks 1..max(currentWeek, 1); App.jsx: the *)
(* PREV and NEXT buttons. The week changes, so the effect of useMatchups    *)
(* runs again; nothing cancels the fetch of the week selected before.       *)
SelectWeek(w) ==
    /\ activeTab = "matchups"
    /\ selectedWeek # 0
    /\ RenderPage(variant, data) = "page"
    /\ w # selectedWeek
    /\ w <= MaxSeasonWeek
    /\ IF variant = "direct"
       THEN w \in 1..Maximum(data.currentWeek, 1)
       ELSE w \in {Maximum(1, selectedWeek - 1), selectedWeek + 1}
    /\ selectedWeek' = w
    /\ MatchupsEffect(w)
    /\ UNCHANGED <<variant, activeTab, call, chat, upstream, leagueVars, trendVars, awardVars>>

(* A published store whose weeks 1..MaxSeasonWeek each have their own matchups *)
(* feed; the backend also serves one awards feed for every week.              *)
WeeksInit ==
    /\ variant \in {"direct", "backend"}
    /\ \E week \in 1..MaxSeasonWeek :
        \E feeds \in [1..MaxSeasonWeek ->
                        IF variant = "direct"
                        THEN {Failed, Fetched(PairRows(<<1, 1>>, 0)),
                              Fetched(PairRows(<<1, 1>>, 1))}
                        ELSE {NotAnArray,
                              Fetched(<<BackendGame(Side(<<"Ann">>, 101), Side(<<"Bob">>, 99))>>),
                              Fetched(<<BackendGame(Side(<<"Cyd">>, 88), Side(<<"Ann">>, 120))>>),
                              Fetched(<<BackendGame(Side(<<"Ann">>, 120), Absent)>>)}] :
        \E prizes \in IF variant = "direct" THEN {Failed}
                      ELSE {Failed, Fetched(<<TopDawgItem>>),
                            Fetched(<<TopDawgItem, UntitledItem>>)} :
            LET league ==
                    [League([week |-> week],
                            IF variant = "direct" THEN HookUsers ELSE <<>>,
                            IF variant = "direct" THEN HookRosters ELSE <<>>,
                            <<>>)
                        EXCEPT !.matchups = [w \in Weeks |-> IF w <= MaxSeasonWeek
                                                             THEN feeds[w] ELSE Failed],
                               !.awards = [w \in Weeks |-> prizes]]
            IN  /\ upstream = league
                /\ data = IF variant = "direct" THEN PublishDirect(league, {})
                          ELSE PublishBackend(league)
    /\ mounted = TRUE
    /\ inflight = {}
    /\ nextId = 2
    /\ HooksIdle

WeeksNext ==
    \/ MountMatchups
    \/ \E id \in Tabs : SetActiveTab(id)
    \/ MountMatchupsPage
    \/ \E w \in 1..MaxSeasonWeek : SelectWeek(w)
    \/ \E i \in DOMAIN mPending : MatchupsResponse(i)
    \/ \E i \in DOMAIN mPending : MatchupsResponseBackend(i)

SpecWeeks == WeeksInit /\ [][WeeksNext]_vars

(* The per-week loads of the Matchups page and of the Awards page. A fetch  *)
(* that was issued is answered (api.get settles every call, C17) and the    *)
(* continuation that awaits it then runs; the user's actions are not fair.  *)
LoadsNext ==
    \/ MountMatchups
    \/ MountMatchupsPage
    \/ \E w \in 1..MaxSeasonWeek : SelectWeek(w)
    \/ \E i \in DOMAIN mPending : MatchupsResponse(i)
    \/ \E i \in DOMAIN mPending : MatchupsResponseBackend(i)
    \/ AwardsEffect
    \/ AwardsWeekDirect
    \/ \E i \in 0..Len(aOld) : AwardsWeekBackend(i)
    \/ \E id \in Tabs : SetActiveTab(id)

SpecLoads ==
    /\ WeeksInit
    /\ [][LoadsNext]_vars
    /\ WF_vars(\E i \in DOMAIN mPending : MatchupsResponse(i))
    /\ WF_vars(\E i \in DOMAIN mPending : MatchupsResponseBackend(i))
    /\ WF_vars(AwardsWeekDirect)
    /\ WF_vars(AwardsWeekBackend(0))

----------------------------------------------------------------------------
(* AIChat: send of part_000 (a timer and a canned reply) and handleSend of *)
(* App.jsx (a completion call)                                             *)

(* input.trim(): the inputs of the model are "", blanks and words *)
Trim(text) == IF text = "  " THEN "" ELSE text

ChatInputs == {"", "  ", "hi", "trade?"}

(* onChange of the <input> *)
ChatType(text) ==
    /\ activeTab = "chat"
    /\ RenderPage(variant, data) = "page"
    /\ text # chat.input
    /\ chat' = [chat EXCEPT !.input = text]
    /\ UNCHANGED <<variant, activeTab, call, upstream, leagueVars, matchVars, trendVars, awardVars>>

(* disabled= of the send <button> *)
SendDisabled(v, c) ==
    IF v = "direct" THEN c.loading \/ Trim(c.input) = "" ELSE c.loading

(* The first line of the handler: what makes it return at once *)
SendIgnored(v, c) ==
    IF v = "direct" THEN Trim(c.input) = "" \/ c.loading ELSE Trim(c.input) = ""

(* send / handleSend, from the button's onClick or from Enter in the <input> *)
ChatSend(via) ==
    /\ activeTab = "chat"
    /\ RenderPage(variant, data) = "page"
    /\ via = "button" => ~SendDisabled(variant, chat)
    /\ ~SendIgnored(variant, chat)
    /\ Len(chat.messages) < MaxChatMessages
    /\ chat' = [messages |-> Append(chat.messages, Message("user", chat.input)),
                input |-> "", loading |-> TRUE, awaited |-> chat.awaited + 1]
    /\ UNCHANGED <<variant, activeTab, call, upstream, leagueVars, matchVars, trendVars, awardVars>>

(* part_000: the setTimeout callback appends one of the canned responses *)
CannedReplies == {"canned 1", "canned 2"}

TimerFires(reply) ==
    /\ variant = "direct"
    /\ chat.awaited > 0
    /\ chat' = [chat EXCEPT !.messages = Append(@, Message("assistant", reply)),
                            !.loading = FALSE, !.awaited = @ - 1]
    /\ UNCHANGED <<variant, activeTab, call, upstream, leagueVars, matchVars, trendVars, awardVars>>

(* App.jsx: what the completion endpoint can answer. A decoded body is JSON *)
(* null (Absent) or an object, of which the handler reads                   *)
(* choices?.[0]?.message?.content: "" when a link of that chain is missing  *)
(* or the content is empty.                                                 *)
Completion(content) == [content |-> content]

ChatOutcomes ==
    {NetworkError}
        \cup {Response(st, j) :
                st \in {200, 401, 500},
                j \in {Undecodable, Decoded(Absent), Decoded(Completion("")),
                       Decoded(Completion("an answer"))}}

(* fetch and res.json() inside the try; res.ok is never read *)
ReplyOf(outcome) ==
    IF ~outcome.net THEN "connection error"
    ELSE IF ~outcome.json.decodes THEN "connection error"
    ELSE IF outcome.json.value = Absent THEN "connection error"
    ELSE IF outcome.json.value.content = "" THEN "could not process"
    ELSE outcome.json.value.content

(* the rest of handleSend after the await: try or catch, then finally *)
CompletionSettles(outcome) ==
    /\ variant = "backend"
    /\ chat.awaited > 0
    /\ chat' = [chat EXCEPT !.messages = Append(@, Message("assistant", ReplyOf(outcome))),
                            !.loading = FALSE, !.awaited = @ - 1]
    /\ UNCHANGED <<variant, activeTab, call, upstream, leagueVars, matchVars, trendVars, awardVars>>

ChatInit ==
    /\ variant \in {"direct", "backend"}
    /\ LET league == League([week |-> 1], <<>>, <<>>, <<>>)
       IN  /\ upstream = league
           /\ data = IF variant = "direct" THEN PublishDirect(league, {})
                     ELSE PublishBackend(league)
    /\ mounted = TRUE
    /\ inflight = {}
    /\ nextId = 2
    /\ HooksIdle

ChatNext ==
    \/ \E text \in ChatInputs : ChatType(text)
    \/ \E via \in {"button", "enter"} : ChatSend(via)
    \/ \E reply \in CannedReplies : TimerFires(reply)
    \/ \E outcome \in ChatOutcomes : CompletionSettles(outcome)
    \/ \E id \in Tabs : SetActiveTab(id)

SpecChat == ChatInit /\ [][ChatNext]_vars

----------------------------------------------------------------------------
(* Standings Ranker: claims *)

Injective(f) == \A i, j \in DOMAIN f : f[i] = f[j] => i = j

PositionOf(standings, rosterId) ==
    CHOOSE k \in DOMAIN standings : standings[k].rosterId = rosterId

SameKey(r1, r2) ==
    OrZero(r1.wins) = OrZero(r2.wins) /\ PointsFor(r1) = PointsFor(r2)

\* C1: the published standings hold exactly one team per roster of the same
\* snapshot, the ranks are 1..N in output order, and for all positions i < j
\* either wins[i] > wins[j], or the wins are equal and pf[i] >= pf[j].
C1_RankerContract ==
    variant = "direct" =>
        LET st == data.standings
            rs == data.rosters
        IN  /\ Len(st) = Len(rs)
            /\ \E p \in [DOMAIN st -> DOMAIN rs] :
                    /\ Injective(p)
                    /\ \A i \in DOMAIN st :
                            /\ st[i].rosterId = rs[p[i]].roster_id
                            /\ st[i].wins = OrZero(rs[p[i]].wins)
                            /\ st[i].pf = PointsFor(rs[p[i]])
            /\ \A i \in DOMAIN st : st[i].rank = i
            /\ \A i, j \in DOMAIN st :
                    i < j => \/ st[i].wins > st[j].wins
                             \/ st[i].wins = st[j].wins /\ st[i].pf >= st[j].pf

\* C1 witness: three rosters were ranked, the order changed, one neighbour pair
\* is decided by wins and another by points-for.
C1_Witness ==
    /\ variant = "direct"
    /\ ~data.loading
    /\ data.error = NoError
    /\ Len(data.standings) = 3
    /\ data.standings[1].rosterId = 3
    /\ data.standings[1].wins > data.standings[2].wins
    /\ data.standings[2].wins = data.standings[3].wins
    /\ data.standings[2].pf > data.standings[3].pf

\* C2: two rosters with identical wins and identical points-for keep their
\* relative input order in the published standings.
C2_RankerStable ==
    variant = "direct" =>
        \A i, j \in DOMAIN data.rosters :
            (i < j /\ SameKey(data.rosters[i], data.rosters[j])) =>
                PositionOf(data.standings, data.rosters[i].roster_id)
                    < PositionOf(data.standings, data.rosters[j].roster_id)

\* C2 witness: rosters 1 and 2 tie on both keys and roster 3 was sorted above both.
C2_Witness ==
    /\ variant = "direct"
    /\ ~data.loading
    /\ Len(data.rosters) = 3
    /\ SameKey(data.rosters[1], data.rosters[2])
    /\ data.standings[1].rosterId = 3
    /\ data.standings[2].rosterId = 1
    /\ data.standings[3].rosterId = 2

----------------------------------------------------------------------------
(* Matchup Pairer: claims *)

MatchupsShown == selectedWeek # 0 /\ mPending = <<>> /\ ~mLoading

WeekRows == upstream.matchups[selectedWeek].body

CountOf(rows, mid) == Cardinality({i \in DOMAIN rows : rows[i].matchup_id = mid})

PairedIds(rows) ==
    {mid \in {rows[i].matchup_id : i \in DOMAIN rows} :
        mid # Null /\ CountOf(rows, mid) = 2}

IsPairOf(rows, mid, m) ==
    \E i, j \in DOMAIN rows :
        /\ i # j
        /\ rows[i].matchup_id = mid
        /\ rows[j].matchup_id = mid
        /\ m.score1 = OrZero(rows[i].points)
        /\ m.score2 = OrZero(rows[j].points)

TracesToPairs(rows, shown) ==
    \E f \in [DOMAIN shown -> PairedIds(rows)] :
        /\ Injective(f)
        /\ \A k \in DOMAIN shown : IsPairOf(rows, f[k], shown[k])

\* C3 (as claimed): when every row has a non-null pairing identifier and every
\* identifier occurs on exactly two rows, the number of matchups is half the
\* number of rows and each matchup's scores are those of the two rows of one
\* identifier.
C3_AllPairedAllEmitted ==
    (MatchupsShown /\ upstream.matchups[selectedWeek].ok) =>
        LET rows == WeekRows
        IN  (\A i \in DOMAIN rows :
                rows[i].matchup_id # Null /\ CountOf(rows, rows[i].matchup_id) = 2)
            => /\ 2 * Len(matchups) = Len(rows)
               /\ TracesToPairs(rows, matchups)

\* C3, for identifiers other than 0: the same statement holds of the code when
\* no row carries the identifier 0.
C3_NonZeroIdsPaired ==
    (MatchupsShown /\ upstream.matchups[selectedWeek].ok) =>
        LET rows == WeekRows
        IN  (\A i \in DOMAIN rows :
                /\ ~Falsy(rows[i].matchup_id)
                /\ CountOf(rows, rows[i].matchup_id) = 2)
            => /\ 2 * Len(matchups) = Len(rows)
               /\ TracesToPairs(rows, matchups)

Malformed(rows, i) ==
    rows[i].matchup_id = Null \/ CountOf(rows, rows[i].matchup_id) # 2

WithoutMalformed(rows) ==
    LET Keep(m) == m.matchup_id # Null /\ CountOf(rows, m.matchup_id) = 2
    IN  SelectSeq(rows, Keep)

\* C4: a row whose pairing identifier is null, or occurs on one row or on three
\* or more rows, takes part in no matchup, every matchup is the pair of an
\* identifier with exactly two rows, and the matchups shown are those the same
\* week gives without its malformed rows.
C4_MalformedRowsDropped ==
    (MatchupsShown /\ upstream.matchups[selectedWeek].ok) =>
        LET rows == WeekRows
            names == RosterToUser(data.rosters, data.userMap)
        IN  /\ \A i \in DOMAIN rows : Malformed(rows, i) =>
                    \A k \in DOMAIN matchups :
                        /\ matchups[k].team1 # TeamNameOf(names, rows[i].roster_id)
                        /\ matchups[k].team2 # TeamNameOf(names, rows[i].roster_id)
            /\ TracesToPairs(rows, matchups)
            /\ matchups = PairMatchups(names, WithoutMalformed(rows))

\* C4 witness: the week holds a null row or a single row, an identifier on three
\* rows, and a pair whose matchup is shown.
C4_Witness ==
    /\ MatchupsShown
    /\ upstream.matchups[selectedWeek].ok
    /\ \E i \in DOMAIN WeekRows :
            WeekRows[i].matchup_id = 1 /\ CountOf(WeekRows, 1) >= 3
    /\ \E i \in DOMAIN WeekRows :
            WeekRows[i].matchup_id = Null \/ CountOf(WeekRows, WeekRows[i].matchup_id) = 1
    /\ Len(matchups) = 1

----------------------------------------------------------------------------
(* Award Calculator: claims *)

AwardsPublished == aRun.pc = "done"

PositiveRows(feed) ==
    IF feed.ok
    THEN {i \in DOMAIN feed.body : feed.body[i].points # Null /\ feed.body[i].points > 0}
    ELSE {}

FirstIn(indices) == CHOOSE i \in indices : \A j \in indices : i <= j

ScoreOfRow(rows, i) ==
    [team |-> AwardTeamOf(RosterToUser(data.rosters, data.userMap), rows[i].roster_id),
     points |-> rows[i].points]

\* C5: in every published week the top scorer is the first row, in the week's row
\* order, that has the maximal points among the rows with positive points, and
\* the low scorer the first row that has the minimal points among them.
C5_FirstTopAndLow ==
    (variant = "direct" /\ AwardsPublished) =>
        \A k \in DOMAIN awards :
            LET feed == upstream.matchups[awards[k].week]
                rows == feed.body
                pos == PositiveRows(feed)
                highest == {i \in pos : \A j \in pos : rows[i].points >= rows[j].points}
                lowest == {i \in pos : \A j \in pos : rows[i].points <= rows[j].points}
            IN  /\ pos # {}
                /\ awards[k].topDawg = ScoreOfRow(rows, FirstIn(highest))
                /\ awards[k].superWeenie = ScoreOfRow(rows, FirstIn(lowest))

\* C5 witness: a published week in which two rows tie for the maximum and the
\* earlier one, roster 1, was chosen, and a week in which two rows tie for the
\* minimum.
C5_Witness ==
    /\ variant = "direct"
    /\ AwardsPublished
    /\ \E k \in DOMAIN awards :
            LET rows == upstream.matchups[awards[k].week].body
            IN  /\ Len(rows) = 3
                /\ rows[1].points = 70 /\ rows[2].points = 70 /\ rows[3].points = 50
                /\ awards[k].topDawg.team = <<"Ann">>
                /\ awards[k].superWeenie.points = 50

AwardsWindow == {w \in Weeks : w >= data.currentWeek - 2 /\ w <= data.currentWeek}

HasAwardData(w) ==
    IF variant = "direct" THEN PositiveRows(upstream.matchups[w]) # {}
    ELSE upstream.awards[w].ok /\ Len(upstream.awards[w].body) > 0

\* C6: the published awards hold exactly one entry for each week of
\* max(1, currentWeek - 2)..currentWeek that has data (a row with positive
\* points; an award row in the backend feed) and no entry for any other week.
C6_WindowWeeksWithData ==
    AwardsPublished =>
        /\ {awards[k].week : k \in DOMAIN awards} = {w \in AwardsWindow : HasAwardData(w)}
        /\ \A k, l \in DOMAIN awards : awards[k].week = awards[l].week => k = l

\* C6 witness: currentWeek is 4, week 1 has data but lies outside the window, and
\* exactly one week of the window has none.
C6_Witness ==
    /\ AwardsPublished
    /\ data.currentWeek = 4
    /\ HasAwardData(1)
    /\ Len(awards) = 2

\* C7: the awards list is ordered most-recent-week-first: the weeks of
\* consecutive entries are strictly decreasing.
C7_MostRecentFirst ==
    \A k \in DOMAIN awards : k > 1 => awards[k - 1].week > awards[k].week

\* C7 witness: three weeks were published.
C7_Witness ==
    /\ AwardsPublished
    /\ Len(awards) = 3
    /\ awards[1].week = data.currentWeek

----------------------------------------------------------------------------
(* Weekly Trend Aggregator: claims *)

HistoryPublished == hRun.pc = "done"

HistoryWeeks == {w \in Weeks : w <= data.currentWeek /\ w <= 17}

RECURSIVE TotalOf(_, _)
TotalOf(rows, indices) ==
    IF indices = {} THEN 0
    ELSE LET i == FirstIn(indices)
         IN  rows[i].points + TotalOf(rows, indices \ {i})

\* C8: for every week of the range the published trend holds a point iff the
\* week's rows hold a positive score, and the point's high, low and average are
\* the maximum, the minimum and the mean of exactly the positive scores.
C8_TrendOfPositiveScores ==
    (variant = "direct" /\ HistoryPublished) =>
        \A w \in HistoryWeeks :
            LET feed == upstream.matchups[w]
                pos == PositiveRows(feed)
                at == {k \in DOMAIN history : history[k].week = w}
            IN  /\ (at # {}) <=> (pos # {})
                /\ \A k \in at :
                        /\ \E i \in pos : feed.body[i].points = history[k].high
                        /\ \A i \in pos : feed.body[i].points <= history[k].high
                        /\ \E i \in pos : feed.body[i].points = history[k].low
                        /\ \A i \in pos : feed.body[i].points >= history[k].low
                        /\ history[k].avg.count = Cardinality(pos)
                        /\ history[k].avg.sum = TotalOf(feed.body, pos)

\* C8 witness: the scores [10, 20, 30, 0] gave high 30, low 10 and average 20.
C8_Witness ==
    /\ variant = "direct"
    /\ HistoryPublished
    /\ \E k \in DOMAIN history :
            LET rows == upstream.matchups[history[k].week].body
            IN  /\ Len(rows) = 4
                /\ rows[1].points = 10 /\ rows[2].points = 20
                /\ rows[3].points = 30 /\ rows[4].points = 0
                /\ history[k].high = 30
                /\ history[k].low = 10
                /\ history[k].avg.sum = 20 * history[k].avg.count

\* C9: the trend sequence is sorted by week strictly ascending and holds only
\* weeks in 1..min(currentWeek, 17).
C9_TrendSortedInRange ==
    variant = "direct" =>
        /\ \A k \in DOMAIN history : k > 1 => history[k - 1].week < history[k].week
        /\ \A k \in DOMAIN history :
                /\ history[k].week >= 1
                /\ history[k].week <= data.currentWeek
                /\ history[k].week <= 17

\* C9 witness: currentWeek is past the lookback, week 18 has scores, and the
\* published trend holds the 17 weeks before it.
C9_Witness ==
    /\ variant = "direct"
    /\ HistoryPublished
    /\ data.currentWeek > 17
    /\ PositiveRows(upstream.matchups[18]) # {}
    /\ Len(history) = 17

----------------------------------------------------------------------------
(* useLeagueData: claims *)

SnapshotOf(d) ==
    [standings |-> d.standings, currentWeek |-> d.currentWeek,
     nflState |-> d.nflState, userMap |-> d.userMap, rosters |-> d.rosters]

\* C10: a refresh whose joined group loses a required fetch ends with error set
\* and loading = FALSE, and standings, currentWeek, nflState, userMap and rosters
\* are the values the store held before that refresh started.
C10_FailedRefreshKeepsSnapshot ==
    [][\A r \in inflight \ inflight' : \A lost \in SUBSET JoinedFetches(variant) :
            (lost \cap RequiredFetches(variant) # {} /\ ResolveRefresh(r, lost)) =>
                /\ data'.loading = FALSE
                /\ data'.error # NoError
                /\ SnapshotOf(data') = SnapshotOf(r.pre)]_vars

\* C10 witness: a refresh has failed after an earlier one had published standings.
C10_Witness ==
    /\ ~data.loading
    /\ data.error # NoError
    /\ data.standings # <<>>
    /\ inflight = {}

----------------------------------------------------------------------------
(* Roster/User Resolver and ranking key: claims *)

\* C19 (as claimed): every fetched user has an entry in the owner mapping whose
\* name is the display name if present, else the username if present, else
\* "Unknown", and whose avatar is "none" when the user has no avatar reference.
C19_AvatarNoneWhenAbsent ==
    variant = "direct" =>
        \A i \in DOMAIN data.users :
            LET u == data.users[i]
            IN  /\ u.user_id \in DOMAIN data.userMap
                /\ data.userMap[u.user_id].name =
                        IF u.display_name # "" THEN <<u.display_name>>
                        ELSE IF u.username # "" THEN <<u.username>>
                        ELSE <<"Unknown">>
                /\ u.avatar = "" => data.userMap[u.user_id].avatar = <<"none">>

\* C19 (amended): every fetched user has an entry in the owner mapping whose
\* name is the display name if present, else the username if present, else
\* "Unknown", and whose avatar is null (no avatar) when the user has no avatar
\* reference.
C19_OwnerMapping ==
    variant = "direct" =>
        \A i \in DOMAIN data.users :
            LET u == data.users[i]
            IN  /\ u.user_id \in DOMAIN data.userMap
                /\ data.userMap[u.user_id].name =
                        IF u.display_name # "" THEN <<u.display_name>>
                        ELSE IF u.username # "" THEN <<u.username>>
                        ELSE <<"Unknown">>
                /\ u.avatar = "" => data.userMap[u.user_id].avatar = NoAvatar

\* C19 witness: a published mapping resolves one user by display name, one by
\* username alone, and one with neither, the last two without an avatar.
C19_Witness ==
    /\ variant = "direct"
    /\ ~data.loading
    /\ data.error = NoError
    /\ Len(data.users) = 3
    /\ data.userMap[1].name = <<"Ann">>
    /\ data.userMap[2].name = <<"Unknown">>
    /\ data.userMap[3].name = <<"cy03">>
    /\ data.userMap[2].avatar = NoAvatar
    /\ data.userMap[1].avatar # NoAvatar

\* C20: points-for is fpts + fpts_decimal / 100 (here in hundredths), and two
\* rosters with equal wins and equal whole points are ordered by their
\* hundredths, the higher first.
C20_RankingKeyPrecision ==
    variant = "direct" =>
        /\ \A i \in DOMAIN data.rosters :
                LET r == data.rosters[i]
                IN  data.standings[PositionOf(data.standings, r.roster_id)].pf
                        = OrZero(r.fpts) * 100 + OrZero(r.fpts_decimal)
        /\ \A i, j \in DOMAIN data.rosters :
                LET a == data.rosters[i]
                    b == data.rosters[j]
                IN  (/\ OrZero(a.wins) = OrZero(b.wins)
                     /\ OrZero(a.fpts) = OrZero(b.fpts)
                     /\ OrZero(a.fpts_decimal) > OrZero(b.fpts_decimal)) =>
                        PositionOf(data.standings, a.roster_id)
                            < PositionOf(data.standings, b.roster_id)

\* C20 witness: two rosters with equal wins score 90.50 and 90.54, both shown
\* as 90.5, and the later roster of the input is ranked above the earlier.
C20_Witness ==
    /\ variant = "direct"
    /\ ~data.loading
    /\ data.error = NoError
    /\ \E i, j \in DOMAIN data.standings :
            /\ i < j
            /\ data.standings[i].wins = data.standings[j].wins
            /\ data.standings[i].pf = 9054
            /\ data.standings[j].pf = 9050
            /\ DisplayTenths(data.standings[i].pf) = DisplayTenths(data.standings[j].pf)
            /\ data.standings[i].rosterId > data.standings[j].rosterId

----------------------------------------------------------------------------
(* Fetch boundary: claims *)

\* C17: a call that ends in a network error or a non-success HTTP status
\* returns null, a successful call returns the decoded body, and a call under
\* way can only go on to return: nothing is thrown past api.get.
C17_FetchBoundary ==
    /\ call.pc = "returned" =>
            LET o == call.outcome
            IN  /\ ~o.net => call.value = Failed
                /\ (o.net /\ (o.status < 200 \/ o.status > 299)) => call.value = Failed
                /\ (o.net /\ o.status >= 200 /\ o.status <= 299 /\ o.json.decodes) =>
                        call.value = o.json.value
    /\ call.pc \in {"fetch", "json", "catch"} =>
            ENABLED (FetchSettles \/ JsonSettles \/ CatchReturns)

\* C17 witness: a call answered with status 404 and a decodable body has
\* returned null.
C17_Witness ==
    /\ call.pc = "returned"
    /\ call.outcome.net
    /\ call.outcome.status = 404
    /\ call.outcome.json = Decoded(Fetched(<<>>))
    /\ call.value = Failed

----------------------------------------------------------------------------
(* useLeagueData and App.renderPage: claims *)

\* C11: after a refresh has failed (loading = FALSE, error set) the page area
\* shows the error state with its retry action, and no league data page.
C11_FailedRefreshShowsError ==
    (mounted /\ ~data.loading /\ data.error # NoError) =>
        RenderPage(variant, data) = "error"

\* C12: the snapshot starts as the initial values, and every step either leaves
\* standings, currentWeek, nflState, userMap and rosters all unchanged or sets
\* all five from the fetches of one resolving refresh.
C12_AtomicSnapshot ==
    /\ SnapshotOf(data) = SnapshotOf(InitData)
    /\ [][\/ SnapshotOf(data') = SnapshotOf(data)
          \/ \E r \in inflight :
                /\ data'.nflState = r.sent.state
                /\ data'.currentWeek = OrOne(r.sent.state.week)
                /\ IF variant = "direct"
                   THEN /\ data'.rosters = r.sent.rosters
                        /\ data'.userMap = BuildUserMap(r.sent.users)
                        /\ data'.standings =
                                RankStandings(BuildUserMap(r.sent.users), r.sent.rosters)
                   ELSE /\ data'.rosters = <<>>
                        /\ data'.userMap = <<>>
                        /\ data'.standings = BackendStandings(r.sent.standings)]_vars

\* C12 witness: a later refresh is loading while the store still shows the
\* standings an earlier refresh published.
C12_Witness ==
    /\ data.loading
    /\ inflight # {}
    /\ nextId = 3
    /\ data.standings # <<>>

\* C13 (as claimed): a refresh can be triggered while an earlier refresh is
\* still in flight (whose fetches may then resolve last and overwrite the
\* newer snapshot).
C13_RefreshWhileInFlight ==
    (mounted /\ inflight # {} /\ nextId <= MaxRefreshes) =>
        ENABLED (ClickRefresh \/ ClickRetry)

\* C13 (amended): refreshes are neither cancelled nor sequence-tagged, but a
\* refresh can only be triggered while loading is false, so a refresh in flight
\* (hence every refresh that resolves) is always the most recently initiated
\* one, and no older refresh overwrites a newer snapshot.
C13_LatestRefreshResolves ==
    \A r \in inflight : r.id = nextId - 1 /\ data.loading

\* C13 witness: a second refresh, started after the first had resolved, has
\* published.
C13_Witness ==
    /\ nextId = 3
    /\ inflight = {}
    /\ ~data.loading
    /\ data.error = NoError

\* C15 (as claimed): a refresh that loses any of its fetches ends in the error
\* state (loading false, error set) without starting another refresh, and
\* once mounted a refresh is started only by the refresh or retry control.
C15_AnyFailedFetchEndsInError ==
    [][/\ \A r \in inflight \ inflight' : \A lost \in SUBSET JoinedFetches(variant) :
            (lost # {} /\ ResolveRefresh(r, lost)) =>
                /\ data'.loading = FALSE
                /\ data'.error # NoError
                /\ inflight' = inflight \ {r}
                /\ nextId' = nextId
       /\ (mounted /\ nextId' # nextId) => (ClickRefresh \/ ClickRetry)]_vars

\* C15 (amended): a refresh that loses a required fetch ends in the error state
\* without starting another refresh; a refresh that loses only a fetch that is
\* joined but not required (the league fetch of part_000) publishes with the
\* error unset, also without starting another refresh; and once mounted a
\* refresh is started only by the refresh or retry control.
C15_NoRetryPolicy ==
    [][/\ \A r \in inflight \ inflight' : \A lost \in SUBSET JoinedFetches(variant) :
            (lost # {} /\ ResolveRefresh(r, lost)) =>
                /\ data'.loading = FALSE
                /\ data'.error # NoError <=> lost \cap RequiredFetches(variant) # {}
                /\ inflight' = inflight \ {r}
                /\ nextId' = nextId
       /\ (mounted /\ nextId' # nextId) => (ClickRefresh \/ ClickRetry)]_vars

\* C15 witness: the first refresh has failed and nothing else was started.
C15_Witness ==
    /\ ~data.loading
    /\ data.error # NoError
    /\ inflight = {}
    /\ nextId = 2

----------------------------------------------------------------------------
(* Derived data over refreshes: claims *)

\* C14: once a refresh has succeeded, the matchups on display come from a fetch
\* issued after that refresh started, never from an earlier one.
C14_DerivedDataRebuilt ==
    (mounted /\ ~data.loading /\ data.error = NoError /\ matchups # <<>>) =>
        mNote.shown >= nextId - 1

\* C16: no derivation raises: neither the awards run nor a matchups response
\* handler ends in an exception, whatever fields the fetched rows lack.
C16_DerivationNeverRaises ==
    aRun.pc # "threw" /\ ~mNote.raised

\* C18: every team name the Award Calculator publishes is the owning user's
\* resolved name when the roster's owner resolves and the label
\* "Team {rosterId}" otherwise, also for a row whose roster is not in the
\* roster list; it is never absent.
C18_NamesAlwaysResolve ==
    (variant = "direct" /\ AwardsPublished) =>
        \A k \in DOMAIN awards :
            LET rows == upstream.matchups[awards[k].week].body
                rosterToUser == RosterToUser(data.rosters, data.userMap)
            IN  /\ awards[k].topDawg.team # NoName
                /\ awards[k].superWeenie.team # NoName
                /\ \E i \in DOMAIN rows :
                        awards[k].topDawg.team = TeamNameOf(rosterToUser, rows[i].roster_id)
                /\ \E i \in DOMAIN rows :
                        awards[k].superWeenie.team = TeamNameOf(rosterToUser, rows[i].roster_id)

\* C18 for the Matchup Pairer: both names of every matchup on display are a
\* resolved owner name or the label of a row's roster.
C18_PairerNamesResolve ==
    MatchupsShown =>
        \A k \in DOMAIN matchups :
            \E i, j \in DOMAIN WeekRows :
                /\ matchups[k].team1 =
                        TeamNameOf(RosterToUser(data.rosters, data.userMap), WeekRows[i].roster_id)
                /\ matchups[k].team2 =
                        TeamNameOf(RosterToUser(data.rosters, data.userMap), WeekRows[j].roster_id)
                /\ matchups[k].team1 # NoName
                /\ matchups[k].team2 # NoName

----------------------------------------------------------------------------
(* Matchup Pairer: slot order *)

\* C22: in every matchup shown, team1 and score1 come from the row of the pair
\* that is earlier in the fetched row list, team2 and score2 from the later one.
C22_SlotOrderIsFetchOrder ==
    (MatchupsShown /\ upstream.matchups[selectedWeek].ok) =>
        LET rows == WeekRows
            names == RosterToUser(data.rosters, data.userMap)
        IN  \A k \in DOMAIN matchups :
                \E i, j \in DOMAIN rows :
                    /\ i < j
                    /\ rows[i].matchup_id = rows[j].matchup_id
                    /\ matchups[k].team1 = TeamNameOf(names, rows[i].roster_id)
                    /\ matchups[k].score1 = OrZero(rows[i].points)
                    /\ matchups[k].team2 = TeamNameOf(names, rows[j].roster_id)
                    /\ matchups[k].score2 = OrZero(rows[j].points)

\* C22 witness: a matchup is shown whose two rows are the first and the third of
\* the list, a row of another identifier between them.
C22_Witness ==
    /\ MatchupsShown
    /\ upstream.matchups[selectedWeek].ok
    /\ Len(WeekRows) >= 3
    /\ WeekRows[1].matchup_id = WeekRows[3].matchup_id
    /\ WeekRows[2].matchup_id # WeekRows[1].matchup_id
    /\ \E k \in DOMAIN matchups :
            /\ matchups[k].score1 = OrZero(WeekRows[1].points)
            /\ matchups[k].score2 = OrZero(WeekRows[3].points)

----------------------------------------------------------------------------
(* PATH A standings *)

\* C23: in backend mode the published standings have the length and the order of
\* the standings feed, every field of an entry is the feed's, and the rank of
\* an entry is its 1-based position; nothing is re-sorted or dropped.
C23_BackendStandingsKeepFeedOrder ==
    (variant = "backend" /\ mounted /\ ~data.loading /\ data.error = NoError) =>
        LET feed == upstream.standings
        IN  /\ Len(data.standings) = Len(feed)
            /\ \A i \in DOMAIN feed :
                    /\ data.standings[i].team = feed[i].team
                    /\ data.standings[i].wins = feed[i].wins
                    /\ data.standings[i].points_for = feed[i].points_for
                    /\ data.standings[i].pf = feed[i].points_for
                    /\ data.standings[i].rank = i

\* C23 witness: standings are published from a feed of three entries whose wins
\* ascend, so that an ordering by wins would reverse it.
C23_Witness ==
    /\ variant = "backend" /\ mounted /\ ~data.loading /\ data.error = NoError
    /\ Len(upstream.standings) = 3
    /\ upstream.standings[1].wins < upstream.standings[2].wins
    /\ upstream.standings[2].wins < upstream.standings[3].wins
    /\ data.standings[3].rank = 3
    /\ data.standings[3].team = <<"Owner", 3>>

----------------------------------------------------------------------------
(* The refresh control *)

\* C25: at most one refresh is in flight; while one is, loading is true and
\* neither the refresh control nor the retry action can start another.
C25_AtMostOneRefreshInFlight ==
    /\ Cardinality(inflight) <= 1
    /\ inflight # {} => (data.loading /\ ~ENABLED (ClickRefresh \/ ClickRetry))

\* C25 witness: a refresh started by a user action from the error state is in
\* flight, alone, after the mount refresh has failed.
C25_Witness ==
    /\ mounted
    /\ Cardinality(inflight) = 1
    /\ \E r \in inflight : r.id >= 2 /\ r.pre.error # NoError /\ ~r.pre.loading
    /\ data.loading

----------------------------------------------------------------------------
(* The Matchups page under week changes *)

\* C24: while the fetch of the selected week is unanswered, loading stays true,
\* and whenever loading is false the matchups on display are those derived
\* from the response for the selected week.
C24_ShownMatchupsAreOfSelectedWeek ==
    selectedWeek # 0 =>
        LET got == upstream.matchups[selectedWeek]
            derived == IF variant = "direct"
                       THEN IF got.ok
                            THEN PairMatchups(RosterToUser(data.rosters, data.userMap), got.body)
                            ELSE <<>>
                       ELSE IF IsArray(got) THEN FormatMatchups(got.body) ELSE <<>>
        IN  /\ (\E i \in DOMAIN mPending : mPending[i] = selectedWeek) => mLoading
            /\ ~mLoading => matchups = derived

----------------------------------------------------------------------------
(* Award Calculator: a week whose fetch fails *)

AwardFeed(w) == IF variant = "direct" THEN upstream.matchups[w] ELSE upstream.awards[w]

NothingFetched(feed) == ~feed.ok \/ Len(feed.body) = 0

\* C27: a week of the window whose fetch failed or gave an empty list has no
\* entry in the published awards, every other week of the window that has
\* data has the entry its own feed gives, the store's error stays unset, and
\* a run stops on an exception only for a week that did fetch a non-empty list.
C27_OnlyFailedWeekOmitted ==
    /\ AwardsPublished =>
        /\ data.error = NoError
        /\ \A w \in AwardsWindow :
            IF NothingFetched(AwardFeed(w))
            THEN \A k \in DOMAIN awards : awards[k].week # w
            ELSE HasAwardData(w) =>
                    \E k \in DOMAIN awards :
                        awards[k] =
                            IF variant = "direct"
                            THEN WeekAward(w, QualifyingScores(
                                        RosterToUser(data.rosters, data.userMap),
                                        AwardFeed(w).body))
                            ELSE BackendAward(w, AwardFeed(w).body)
    /\ aRun.pc = "threw" => ~NothingFetched(AwardFeed(aRun.w))

\* C27 witness: of a window of three weeks the middle one failed to fetch and the
\* weeks before and after it are both published.
C27_Witness ==
    /\ AwardsPublished
    /\ data.currentWeek >= 3
    /\ ~AwardFeed(data.currentWeek - 1).ok
    /\ Len(awards) = 2
    /\ awards[1].week = data.currentWeek
    /\ awards[2].week = data.currentWeek - 2

----------------------------------------------------------------------------
(* Per-week loads *)

\* C26: every started matchups load eventually has its loading flag false, and
\* every started awards load eventually has published with its loading flag
\* false, whatever the per-week fetches answer, unless the user has left the
\* page that shows the load.
C26_LoadsTerminate ==
    /\ (mPending # <<>>) ~> (~mLoading \/ selectedWeek = 0)
    /\ (aRun.pc = "loop") ~> ((aRun.pc = "done" /\ ~aLoading) \/ aRun = IdleRun)

----------------------------------------------------------------------------
(* AIChat: claims *)

RoleCount(role) ==
    Cardinality({i \in DOMAIN chat.messages : chat.messages[i].role = role})

\* C28: a send is ignored while a reply is awaited, so at most one reply is
\* outstanding; the messages alternate assistant, user, assistant, ...
\* starting with the greeting; every user message has exactly one reply,
\* arrived or awaited.
C28_ConversationAlternates ==
    /\ chat.awaited <= 1
    /\ chat.awaited > 0 => \A via \in {"button", "enter"} : ~ENABLED ChatSend(via)
    /\ \A i \in DOMAIN chat.messages :
            chat.messages[i].role = IF i % 2 = 1 THEN "assistant" ELSE "user"
    /\ chat.messages[1].content = "greeting"
    /\ RoleCount("user") = RoleCount("assistant") - 1 + chat.awaited

FailedCall(outcome) ==
    \/ ~outcome.net
    \/ ~ResOk(outcome)
    \/ ~outcome.json.decodes

\* C21: whenever a completion call fails (no response, a non-success status or
\* an undecodable body), the step that settles it appends exactly one
\* assistant message, the connection error, and leaves loading false.
C21_FailedCallShowsConnectionError ==
    [][\A outcome \in ChatOutcomes :
            (CompletionSettles(outcome) /\ FailedCall(outcome)) =>
                /\ chat'.messages =
                        Append(chat.messages, Message("assistant", "connection error"))
                /\ ~chat'.loading]_vars

====
